---------------------------- MODULE Spec2Model ----------------------------
(***************************************************************************)
(* Model of robocup_demo/scripts/configure_booster.py: the interactive     *)
(* WiFi / brain configuration tool.  Strings are TLA+ strings, handled     *)
(* character by character the way the Python string methods handle them.   *)
(***************************************************************************)
EXTENDS Integers, Sequences, FiniteSets, TLC

(***************************************************************************)
(* Python string primitives used by the script.                            *)
(***************************************************************************)

\* s[i] as a one-character string
CharAt(s, i) == SubSeq(s, i, i)

\* Python `sub in s`
Contains(s, sub) ==
    \E i \in 1..(Len(s) - Len(sub) + 1) : SubSeq(s, i, i + Len(sub) - 1) = sub

\* Python s.startswith(p)
StartsWith(s, p) == Len(p) <= Len(s) /\ SubSeq(s, 1, Len(p)) = p

\* characters str.strip() / str.split() treat as whitespace
IsSpace(c) == c \in {" ", "\t", "\n", "\r", "\f"}

\* the least and the greatest element of a non-empty set of integers
Min(S) == CHOOSE i \in S : \A j \in S : i <= j
Max(S) == 0 - Min({0 - i : i \in S})

\* the positions of s holding a non-whitespace character
Solid(s) == {i \in 1..Len(s) : ~IsSpace(CharAt(s, i))}

\* Python s.lstrip()
LStrip(s) == IF Solid(s) = {} THEN "" ELSE SubSeq(s, Min(Solid(s)), Len(s))

\* Python s.rstrip()
RStrip(s) == IF Solid(s) = {} THEN "" ELSE SubSeq(s, 1, Max(Solid(s)))

\* Python s.strip()
Strip(s) == RStrip(LStrip(s))

UpperChars == "ABCDEFGHIJKLMNOPQRSTUVWXYZ"
LowerChars == "abcdefghijklmnopqrstuvwxyz"

LowerChar(c) ==
    IF \E k \in 1..Len(UpperChars) : CharAt(UpperChars, k) = c
    THEN CharAt(LowerChars, CHOOSE k \in 1..Len(UpperChars) : CharAt(UpperChars, k) = c)
    ELSE c

\* Python s.lower(), halving the string so that the recursion stays shallow
RECURSIVE Lower(_)
Lower(s) ==
    IF Len(s) = 0 THEN s
    ELSE IF Len(s) = 1 THEN LowerChar(s)
    ELSE Lower(SubSeq(s, 1, Len(s) \div 2)) \o Lower(SubSeq(s, Len(s) \div 2 + 1, Len(s)))

\* Python s.isdigit(): non-empty and every character a digit
IsDigit(s) == Len(s) > 0 /\ \A i \in 1..Len(s) : Contains("0123456789", CharAt(s, i))

\* int(s) for a digit string
RECURSIVE ToInt(_)
ToInt(s) ==
    IF Len(s) = 0 THEN 0
    ELSE 10 * ToInt(SubSeq(s, 1, Len(s) - 1))
         + ((CHOOSE k \in 1..10 : CharAt("0123456789", k) = CharAt(s, Len(s))) - 1)

\* index of the first occurrence of sep in s at or after position i, 0 if none
FindFrom(s, sep, i) ==
    LET hits == {k \in i..(Len(s) - Len(sep) + 1) : SubSeq(s, k, k + Len(sep) - 1) = sep}
    IN  IF hits = {} THEN 0 ELSE Min(hits)

\* Python s.split(sep) for a non-empty sep
RECURSIVE Split(_, _)
Split(s, sep) ==
    LET k == FindFrom(s, sep, 1) IN
    IF k = 0 THEN <<s>>
    ELSE <<SubSeq(s, 1, k - 1)>> \o Split(SubSeq(s, k + Len(sep), Len(s)), sep)

\* Python s.split(sep, 1)
Split1(s, sep) ==
    LET k == FindFrom(s, sep, 1) IN
    IF k = 0 THEN <<s>>
    ELSE <<SubSeq(s, 1, k - 1), SubSeq(s, k + Len(sep), Len(s))>>

\* length of the leading run of non-whitespace characters of s
WordLen(s) ==
    LET gaps == {i \in 1..Len(s) : IsSpace(CharAt(s, i))}
    IN  IF gaps = {} THEN Len(s) ELSE Min(gaps) - 1

\* Python s.split(): the whitespace-separated words of s
RECURSIVE SplitWS(_)
SplitWS(s) ==
    LET t == LStrip(s) IN
    IF Len(t) = 0 THEN <<>>
    ELSE LET n == WordLen(t) IN <<SubSeq(t, 1, n)>> \o SplitWS(SubSeq(t, n + 1, Len(t)))

\* text-mode read with universal newlines: "\r\n" and a lone "\r" become "\n"
\* what the character at position i of s reads as: a "\r" reads as "\n", and the
\* "\n" of a "\r\n" pair reads as nothing
TranslatedAt(s, i) ==
    IF CharAt(s, i) = "\r" THEN "\n"
    ELSE IF CharAt(s, i) = "\n" /\ i > 1 /\ CharAt(s, i - 1) = "\r" THEN ""
    ELSE CharAt(s, i)

\* positions lo..hi of s as read, halving the range so the recursion stays shallow
RECURSIVE TranslateRange(_, _, _)
TranslateRange(s, lo, hi) ==
    IF lo > hi THEN ""
    ELSE IF lo = hi THEN TranslatedAt(s, lo)
    ELSE TranslateRange(s, lo, (lo + hi) \div 2) \o TranslateRange(s, (lo + hi) \div 2 + 1, hi)

TranslateNewlines(s) == TranslateRange(s, 1, Len(s))

\* the lines of an already translated text, each keeping its "\n"
RECURSIVE KeepEndsLines(_)
KeepEndsLines(s) ==
    LET k == FindFrom(s, "\n", 1) IN
    IF Len(s) = 0 THEN <<>>
    ELSE IF k = 0 THEN <<s>>
    ELSE <<SubSeq(s, 1, k)>> \o KeepEndsLines(SubSeq(s, k + 1, Len(s)))

\* f.readlines() on a file opened with mode "r"
ReadLines(bytes) == KeepEndsLines(TranslateNewlines(bytes))

\* Python s.splitlines(): the lines without their terminators
RECURSIVE SplitLines(_)
SplitLines(s) ==
    LET t == TranslateNewlines(s)
        k == FindFrom(t, "\n", 1)
    IN  IF Len(t) = 0 THEN <<>>
        ELSE IF k = 0 THEN <<t>>
        ELSE <<SubSeq(t, 1, k - 1)>> \o SplitLines(SubSeq(t, k + 1, Len(t)))

\* the concatenation of a sequence of strings (f.write of each line in turn)
RECURSIVE Concat(_)
Concat(ls) == IF Len(ls) = 0 THEN "" ELSE Head(ls) \o Concat(Tail(ls))

(***************************************************************************)
(* Program constants.                                                      *)
(***************************************************************************)

\* "../src/brain/config/config.yaml" next to the script
ConfigPath == "../src/brain/config/config.yaml"

\* the config file on disk: whether it exists, and its content
NoFile == [exists |-> FALSE, bytes |-> ""]
FileOf(b) == [exists |-> TRUE, bytes |-> b]

\* Optional[str]: None is the empty sequence, a value v is <<v>>
None == <<>>
Some(v) == <<v>>
\* Python truthiness of an Optional[str]: `if not v`
Truthy(o) == o # None /\ o[1] # ""

\* the WifiConfig built in __main__
DefaultConfig ==
    [ssid |-> "robocup-x", interface |-> "wlp146s0", ip |-> "192.168.57.45",
     subnet |-> "27", gateway |-> "192.168.57.1", password |-> "9181918191",
     dns |-> "8.8.8.8"]

\* one external effect: a command run (argv, exit code, stdout) or a file open
Call(argv, r) == [argv |-> argv, rc |-> r.rc, out |-> r.out]
Open(mode) == [argv |-> <<"open", ConfigPath, mode>>, rc |-> 0, out |-> ""]
OpenFailed(mode) == [argv |-> <<"open", ConfigPath, mode>>, rc |-> 2, out |-> ""]

\* verify_connection has not run in the current operation
NotVerified == [ran |-> FALSE, marks |-> <<>>, all_good |-> FALSE]

(***************************************************************************)
(* Pure parts of the script.                                               *)
(***************************************************************************)

\* the slice taken one octet too early: config.ip.split(".")[1:3]
IpTailShifted(ip) == LET parts == Split(ip, ".") IN SubSeq(parts, 2, Len(parts) - 1)

\* config.ip.split(".")[2:]
IpTail(ip) == LET parts == Split(ip, ".") IN SubSeq(parts, 3, Len(parts))

\* the loop body of the team_id / player_id patch in apply_configuration
PatchIdsLine(line, team_id, player_id) ==
    IF Contains(line, "team_id")
    THEN "      team_id: " \o team_id \o " # must be consistant with GameControl\n"
    ELSE IF Contains(line, "player_id")
    THEN "      player_id: " \o player_id \o " # 1 | 2 | 3 | 4 | 5\n"
    ELSE line

\* the file content apply_configuration writes back
PatchIds(bytes, team_id, player_id) ==
    LET lines == ReadLines(bytes) IN
    Concat([i \in 1..Len(lines) |-> PatchIdsLine(lines[i], team_id, player_id)])

\* the loop body of the player_role patch in configure_purpose
PatchRoleLine(line, new_purpose) ==
    IF Contains(line, "player_role")
    THEN "      player_role: \"" \o new_purpose \o "\" # striker | goal_keeper\n"
    ELSE line

\* the file content configure_purpose writes back
PatchRole(bytes, new_purpose) ==
    LET lines == ReadLines(bytes) IN
    Concat([i \in 1..Len(lines) |-> PatchRoleLine(lines[i], new_purpose)])

\* index of the first element of seq at or after i satisfying P, 0 if none
RECURSIVE FirstIndex(_, _, _)
FirstIndex(seq, P(_), i) ==
    IF i > Len(seq) THEN 0 ELSE IF P(seq[i]) THEN i ELSE FirstIndex(seq, P, i + 1)

\* configure_purpose: the first player_role line of the file, 0 if none
RoleLineIndex(bytes) ==
    LET lines == ReadLines(bytes)
        IsRole(l) == Contains(l, "player_role")
    IN  FirstIndex(lines, IsRole, 1)

\* configure_purpose: line.lstrip().split('"')[1] raises IndexError
RoleLineRaises(bytes) ==
    LET k == RoleLineIndex(bytes) IN
    k # 0 /\ Len(Split(LStrip(ReadLines(bytes)[k]), "\"")) < 2

\* get_available_interfaces on the result of `nmcli device`
RECURSIVE InterfacesOf(_)
InterfacesOf(lines) ==
    IF Len(lines) = 0 THEN <<>>
    ELSE LET line == Head(lines)
             parts == SplitWS(line)
             keep == /\ Strip(line) # ""
                     /\ Contains(Lower(line), "wifi")
                     /\ Len(parts) >= 1
                     /\ parts[1] # ""
                     /\ ~StartsWith(parts[1], "DEVICE")
         IN  (IF keep THEN <<parts[1]>> ELSE <<>>) \o InterfacesOf(Tail(lines))

get_available_interfaces(r) == IF r.rc # 0 THEN <<>> ELSE InterfacesOf(SplitLines(r.out))

\* get_available_networks on the result of `nmcli device wifi list`
RECURSIVE NetworksOf(_, _)
NetworksOf(lines, networks) ==
    IF Len(lines) = 0 THEN networks
    ELSE LET line == Head(lines)
             parts == SplitWS(line)
             keep == /\ Strip(line) # ""
                     /\ ~StartsWith(line, "IN-USE")
                     /\ Len(parts) >= 2
                     /\ \A i \in 1..Len(networks) : networks[i] # parts[2]
                     /\ parts[2] # "SSID"
         IN  NetworksOf(Tail(lines), IF keep THEN Append(networks, parts[2]) ELSE networks)

get_available_networks(r) == IF r.rc # 0 THEN <<>> ELSE NetworksOf(SplitLines(r.out), <<>>)

\* reset_to_dhcp: the first device-status row naming a connected WiFi device
StatusWifiInterface(out) ==
    LET lines == SplitLines(out)
        Hit(l) == LET low == Lower(l)
                  IN  /\ Contains(low, "wifi")
                      /\ Contains(low, "connected")
                      /\ Len(SplitWS(l)) >= 1
        k == FirstIndex(lines, Hit, 1)
    IN  IF k = 0 THEN None ELSE Some(SplitWS(lines[k])[1])

\* reset_to_dhcp: the connection name of the device-show output
ShowActiveConnection(out) ==
    LET lines == SplitLines(out)
        Hit(l) == Contains(l, "GENERAL.CONNECTION:") /\ Len(Split1(l, ":")) >= 2
        k == FirstIndex(lines, Hit, 1)
    IN  IF k = 0 THEN None ELSE Some(Strip(Split1(lines[k], ":")[2]))

\* verify_connection: the IP / prefix check on the result of `ip addr show`
found_correct_ip(cfg, out) ==
    LET expected_ip_subnet == cfg.ip \o "/" \o cfg.subnet
        lines == SplitLines(out)
    IN  \E i \in 1..Len(lines) :
            Contains(lines[i], "inet ") /\ Contains(lines[i], expected_ip_subnet)

\* verify_connection: the SSID of the starred row of the interface, or None
connected_ssid(cfg, out) ==
    LET lines == SplitLines(out)
        Hit(l) == /\ Contains(l, " " \o cfg.interface \o " ")
                  /\ Contains(l, "*")
                  /\ Len(SplitWS(l)) >= 2
        k == FirstIndex(lines, Hit, 1)
    IN  IF k = 0 THEN None ELSE Some(SplitWS(lines[k])[2])

\* the five checks of verify_connection, in order, each on its command's result
check_active(cfg, r) == Contains(r.out, cfg.ssid)
check_ip(cfg, r) == r.rc = 0 /\ found_correct_ip(cfg, r.out)
check_gateway(cfg, r) == Contains(r.out, cfg.gateway)
check_dns(cfg, r) == r.rc = 0 /\ Contains(r.out, cfg.dns)
check_ssid(cfg, r) == r.rc = 0 /\ connected_ssid(cfg, r.out) = Some(cfg.ssid)

\* all_good overwritten by each check, so that the last check alone decides
AllGoodOverwritten(all_good, passed) == passed

\* all_good after one more check: it only ever goes from True to False
AllGoodAfter(all_good, passed) == IF passed THEN all_good ELSE FALSE

\* verify_connection(config) given the results of its five commands
verify_connection(cfg, r1, r2, r3, r4, r5) ==
    LET m1 == check_active(cfg, r1)
        m2 == check_ip(cfg, r2)
        m3 == check_gateway(cfg, r3)
        m4 == check_dns(cfg, r4)
        m5 == check_ssid(cfg, r5)
        g1 == AllGoodAfter(TRUE, m1)
        g2 == AllGoodAfter(g1, m2)
        g3 == AllGoodAfter(g2, m3)
        g4 == AllGoodAfter(g3, m4)
        g5 == AllGoodAfter(g4, m5)
    IN  [ran |-> TRUE, marks |-> <<m1, m2, m3, m4, m5>>, all_good |-> g5]

\* the five commands verify_connection runs
VerifyCalls(cfg, r1, r2, r3, r4, r5) ==
    << Call(<<"nmcli", "connection", "show", "--active">>, r1),
       Call(<<"ip", "addr", "show", cfg.interface>>, r2),
       Call(<<"ip", "route", "show", "default">>, r3),
       Call(<<"cat", "/etc/resolv.conf">>, r4),
       Call(<<"nmcli", "device", "wifi", "list", "--rescan", "no">>, r5) >>

(***************************************************************************)
(* Inputs: what the operator types and what the external commands answer.  *)
(***************************************************************************)

Ok(out) == [rc |-> 0, out |-> out]
Failed(code, out) == [rc |-> code, out |-> out]

\* lines the operator may type at "Select option: "
MenuInputs ==
    {"0", "1", "2", "3", "4", "5", "6", "7", "8", "9", "10", "", "x", " 5 ", " 11\t"}

\* the choices main_menu dispatches
Dispatched == {"0", "1", "2", "3", "4", "5", "6", "7", "8", "9"}

\* answers of one edit_config session, one per prompt
NoAnswers ==
    [ssid |-> "", choice |-> "", custom |-> "", ip |-> "", subnet |-> "",
     gateway |-> "", dns |-> "", password |-> ""]

EditAnswers ==
    { NoAnswers,
      [NoAnswers EXCEPT !.ssid = " lab ", !.choice = "1", !.gateway = "10.0.3.1",
                        !.dns = "1.1.1.1", !.password = "secret"],
      [NoAnswers EXCEPT !.ip = "10.0.3.team_id", !.subnet = "27", !.choice = "7",
                        !.gateway = "  "],
      [NoAnswers EXCEPT !.choice = "x", !.password = " "],
      [NoAnswers EXCEPT !.choice = "0", !.custom = "wlan0"],
      [NoAnswers EXCEPT !.ip = "192.168.57.45", !.subnet = "2", !.choice = "0",
                        !.custom = " "] }

\* answers at "Enter new purpose"
PurposeInputs == {"", "striker", " Goal_Keeper ", "defender"}

\* contents the config file may start with
InitialFiles ==
    { NoFile,
      FileOf("brain:\n  team_id: 1 # x\n  player_id: 2\n  player_role: \"striker\"\n"),
      FileOf("# cfg\r\nplayer_id: 2\r\n"),
      FileOf("player_role: striker\nmy_team_id_and_player_id: 9") }

\* the longest config file, in lines, that the apply runs start from
MaxFileLines == 3

\* lines such a file is made of: either key, both keys, LF, CRLF and no terminator
FileFragments == {"  team_id: 1\n", "x_player_id: 2 # p\r\n", "team_id/player_id"}

GeneratedFiles ==
    {FileOf(Concat(q)) : q \in UNION {[1..k -> FileFragments] : k \in 0..MaxFileLines}}

\* the IPs the apply runs are configured with
ApplyIps == {"192.168.57.45", "10.0.3.team_id", "10.0.7"}

\* `id -u`
IdResults == {Ok("0\n"), Ok("1000\n")}

\* `nmcli device`
DeviceResults ==
    { Ok("DEVICE    TYPE      STATE      CONNECTION\nwlan0     wifi      connected  robocup-x\nlo        loopback  unmanaged  --\n"),
      Failed(8, "") }

\* `nmcli device status`
StatusResults ==
    { Failed(8, ""),
      Ok("DEVICE    TYPE      STATE      CONNECTION\nwlan0     wifi      connected  robocup-x\n"),
      Ok("DEVICE  TYPE      STATE         CONNECTION\neth0    ethernet  connected     Wired\nwlan0   wifi      disconnected  --\n"),
      Ok("DEVICE  TYPE  STATE        CONNECTION\nwlan0   wifi  unavailable  --\n"),
      Ok("DEVICE  TYPE      STATE      CONNECTION\neth0    ethernet  connected  Wired\n") }

\* `nmcli device show <interface>`
ShowResults ==
    { Failed(10, ""),
      Ok("GENERAL.DEVICE:      wlan0\nGENERAL.CONNECTION:  robocup-x\n"),
      Ok("GENERAL.DEVICE:      wlan0\nGENERAL.CONNECTION:  --\n"),
      Ok("GENERAL.DEVICE:      wlan0\nGENERAL.CONNECTION:  \n"),
      Ok("GENERAL.DEVICE:      wlan0\n") }

\* a command of which only the exit code is read (or nothing at all)
PlainResults == {Ok(""), Failed(1, "")}

\* `nmcli connection show --active`
ActiveResults ==
    { Ok("NAME       TYPE  DEVICE\nrobocup-x  wifi  wlp146s0\n"), Ok("NAME  TYPE  DEVICE\n") }

\* `ip addr show <interface>`
AddrResults ==
    { Failed(1, ""),
      Ok("3: wlp146s0: <UP>\n    inet 192.168.57.45/27 brd 192.168.57.63 scope global\n") }

\* `ip route show default`
RouteResults == { Ok("default via 192.168.57.1 dev wlp146s0\n"), Ok("") }

\* `cat /etc/resolv.conf`
ResolvResults == { Ok("nameserver 8.8.8.8\n"), Failed(1, "nameserver 8.8.8.8\n") }

\* `nmcli device wifi list [--rescan no]`
WifiListResults ==
    { Ok("IN-USE  SSID       DEVICE \n*       robocup-x  wlp146s0 \n"),
      Failed(8, "IN-USE  SSID       DEVICE \n*       robocup-x  wlp146s0 \n"),
      Ok("IN-USE  SSID       DEVICE \n        robocup-x  wlp146s0 \n") }

\* `ping -c 3 -W 2 <gateway>`
PingResults == { Ok("3 packets transmitted, 3 received\n"), Failed(1, "") }

(***************************************************************************)
(* State.                                                                  *)
(***************************************************************************)

VARIABLES
    pc,                 \* where the process is: at the prompt, inside an operation, gone
    choice,             \* main_menu: the stripped line last read at the prompt
    config,             \* the global WifiConfig
    file,               \* the brain config.yaml on disk
    calls,              \* commands run and files opened by the current operation
    msgs,               \* what the current operation printed
    typed,              \* the lines the current operation read at its own prompts
    vres,               \* what verify_connection found in the current operation
    team_id,            \* apply_configuration's locals
    player_id,
    wifi_interface,     \* reset_to_dhcp's locals
    active_connection,
    exc                 \* the uncaught exception that ended the process, "" if none

vars == <<pc, choice, config, file, calls, msgs, typed, vres, team_id, player_id,
          wifi_interface, active_connection, exc>>

Init ==
    /\ pc = "menu"
    /\ choice = ""
    /\ config = DefaultConfig
    /\ file \in InitialFiles
    /\ calls = <<>>
    /\ msgs = {}
    /\ typed = <<>>
    /\ vres = NotVerified
    /\ team_id = ""
    /\ player_id = ""
    /\ wifi_interface = None
    /\ active_connection = None
    /\ exc = ""

\* main_menu reads a line and it is choice k
Reads(k) == pc = "menu" /\ choice' = k /\ \E inp \in MenuInputs : Strip(inp) = k

\* an operation of main_menu returns with these effects, its locals gone
Returns(cs, ms) ==
    /\ pc' = "done"
    /\ calls' = cs
    /\ msgs' = ms
    /\ team_id' = ""
    /\ player_id' = ""
    /\ wifi_interface' = None
    /\ active_connection' = None
    /\ exc' = ""

\* an uncaught exception unwinds through main_menu and ends the process
Raises(e, cs, ms) ==
    /\ pc' = "crashed"
    /\ exc' = e
    /\ calls' = cs
    /\ msgs' = ms
    /\ team_id' = ""
    /\ player_id' = ""
    /\ wifi_interface' = None
    /\ active_connection' = None

\* the operation goes on at step p
GoesOn(p, cs, ms) == pc' = p /\ calls' = cs /\ msgs' = ms /\ exc' = ""

\* the locals of the operation under way
Locals == <<team_id, player_id, wifi_interface, active_connection>>

\* the operation goes on at step p with its locals as they are
Proceeds(p, cs, ms) == GoesOn(p, cs, ms) /\ UNCHANGED Locals

\* while True: the next iteration prints the menu and prompts again
main_menu ==
    /\ pc = "done"
    /\ pc' = "menu"
    /\ calls' = <<>>
    /\ msgs' = {}
    /\ typed' = <<>>
    /\ vres' = NotVerified
    /\ choice' = ""
    /\ UNCHANGED <<config, file, team_id, player_id, wifi_interface,
                   active_connection, exc>>

\* choice "1"
display_config ==
    /\ Reads("1")
    /\ Returns(<<>>, {"CURRENT WIFI CONFIGURATION"})
    /\ UNCHANGED <<typed, config, file, vres>>

\* a prompt that assigns whatever was typed, the empty line included
EditFieldAssigned(current, answer) == Strip(answer)

\* one prompt of edit_config: an empty answer keeps the current value
EditField(current, answer) == IF Strip(answer) # "" THEN Strip(answer) ELSE current

\* the interface prompt of edit_config
EditInterface(current, available, a) ==
    IF Len(available) = 0 THEN current
    ELSE IF Strip(a.choice) = "0" THEN EditField(current, a.custom)
    ELSE IF IsDigit(Strip(a.choice)) /\ 1 <= ToInt(Strip(a.choice))
            /\ ToInt(Strip(a.choice)) <= Len(available)
         THEN available[ToInt(Strip(a.choice))]
    ELSE current

\* the prompts edit_config shows, each with the line typed at it
EditTyped(available, a) ==
    <<[prompt |-> "New SSID (or Enter to keep): ", line |-> a.ssid]>>
    \o (IF Len(available) = 0 THEN <<>>
        ELSE <<[prompt |-> "Select interface (or Enter to keep current): ",
                line |-> a.choice]>>
             \o (IF Strip(a.choice) = "0"
                 THEN <<[prompt |-> "Enter interface name: ", line |-> a.custom]>>
                 ELSE <<>>))
    \o <<[prompt |-> "New IP address (or Enter to keep): ", line |-> a.ip],
         [prompt |-> "New subnet mask / (or Enter to keep): ", line |-> a.subnet],
         [prompt |-> "New gateway (or Enter to keep): ", line |-> a.gateway],
         [prompt |-> "New DNS server (or Enter to keep): ", line |-> a.dns],
         [prompt |-> "New password (or Enter to keep): ", line |-> a.password]>>

\* choice "2"
edit_config ==
    /\ Reads("2")
    /\ \E a \in EditAnswers, r \in DeviceResults :
        /\ typed' = EditTyped(get_available_interfaces(r), a)
        /\ config' = [ssid |-> EditField(config.ssid, a.ssid),
                      interface |-> EditInterface(config.interface,
                                                 get_available_interfaces(r), a),
                      ip |-> EditField(config.ip, a.ip),
                      subnet |-> EditField(config.subnet, a.subnet),
                      gateway |-> EditField(config.gateway, a.gateway),
                      dns |-> EditField(config.dns, a.dns),
                      password |-> EditField(config.password, a.password)]
        /\ Returns(<<Call(<<"nmcli", "device">>, r)>>, {"Configuration Editor"})
    /\ UNCHANGED <<file, vres>>

\* choice "3"
scan_networks ==
    /\ Reads("3")
    /\ \E r1 \in PlainResults, r2 \in WifiListResults :
        Returns(<<Call(<<"nmcli", "device", "wifi", "rescan">>, r1),
                  Call(<<"nmcli", "device", "wifi", "list">>, r2)>>,
                IF Len(get_available_networks(r2)) > 0
                THEN {"Found networks"} ELSE {"No networks found"})
    /\ UNCHANGED <<typed, config, file, vres>>

\* choice "4"
scan_interfaces ==
    /\ Reads("4")
    /\ \E r \in DeviceResults :
        Returns(<<Call(<<"nmcli", "device">>, r)>>,
                IF r.rc = 0 THEN {r.out} ELSE {"Failed to get interface list"})
    /\ UNCHANGED <<typed, config, file, vres>>

\* choice "6"
menu_verify_connection ==
    /\ Reads("6")
    /\ \E r1 \in ActiveResults, r2 \in AddrResults, r3 \in RouteResults,
          r4 \in ResolvResults, r5 \in WifiListResults :
        /\ vres' = verify_connection(config, r1, r2, r3, r4, r5)
        /\ Returns(VerifyCalls(config, r1, r2, r3, r4, r5), {"Verifying configuration..."})
    /\ UNCHANGED <<typed, config, file>>

\* choice "7"
test_connection ==
    /\ Reads("7")
    /\ \E r \in PingResults :
        Returns(<<Call(<<"ping", "-c", "3", "-W", "2", config.gateway>>, r)>>,
                IF r.rc = 0 THEN {"Connection test successful!"}
                ELSE {"Connection test failed"})
    /\ UNCHANGED <<typed, config, file, vres>>

\* choice "0"
exit_menu ==
    /\ Reads("0")
    /\ pc' = "exited"
    /\ calls' = <<>>
    /\ msgs' = {"Goodbye!"}
    /\ UNCHANGED <<typed, config, file, vres, team_id, player_id, wifi_interface,
                   active_connection, exc>>

\* any other line
invalid_option ==
    /\ pc = "menu"
    /\ \E inp \in MenuInputs : Strip(inp) \notin Dispatched /\ choice' = Strip(inp)
    /\ Returns(<<>>, {"Invalid option. Please try again."})
    /\ UNCHANGED <<typed, config, file, vres>>

\* what the patch loop of apply_configuration prints
PatchIdsPrints(bytes) ==
    LET lines == ReadLines(bytes) IN
    {"New team id set" : i \in {k \in 1..Len(lines) : Contains(lines[k], "team_id")}}
    \cup {"New player id set" :
            i \in {k \in 1..Len(lines) : /\ ~Contains(lines[k], "team_id")
                                          /\ Contains(lines[k], "player_id")}}

\* choice "5": apply_configuration up to its privilege check
apply_configuration ==
    /\ Reads("5")
    /\ LET tail == IpTail(config.ip)
           said == {"Applying team and player id configurations..."}
       IN  IF Len(tail) # 2
           THEN Raises("ValueError", <<>>, said) /\ UNCHANGED file
           ELSE IF ~file.exists
           THEN Raises("FileNotFoundError", <<OpenFailed("r")>>, said) /\ UNCHANGED file
           ELSE /\ file' = FileOf(PatchIds(file.bytes, tail[1], tail[2]))
                /\ team_id' = tail[1]
                /\ player_id' = tail[2]
                /\ GoesOn("apply_privilege", <<Open("r"), Open("w")>>,
                          said \cup PatchIdsPrints(file.bytes)
                               \cup {"Applying configuration for " \o config.ssid})
                /\ UNCHANGED <<wifi_interface, active_connection>>
    /\ UNCHANGED <<typed, config, vres>>

\* the privilege test as a substring test
is_root_substring(r) == Contains(r.out, "0")

\* the privilege test on the result of `id -u`
is_root(r) == Strip(r.out) = "0"

\* apply_configuration: "Check if running as root"
apply_privilege ==
    /\ pc = "apply_privilege"
    /\ \E r \in IdResults :
        LET cs == Append(calls, Call(<<"id", "-u">>, r)) IN
        IF ~is_root(r)
        THEN Returns(cs, msgs \cup {"Error: This script must be run as root (use sudo)"})
        ELSE Proceeds("apply_interface", cs, msgs)
    /\ UNCHANGED <<typed, choice, config, file, vres>>

\* check_interface_exists on the result of `nmcli device show <interface>`
check_interface_exists(r) == r.rc = 0

\* apply_configuration: "Check if interface exists"
apply_interface ==
    /\ pc = "apply_interface"
    /\ \E r \in PlainResults, d \in DeviceResults :
        LET cs == Append(calls, Call(<<"nmcli", "device", "show", config.interface>>, r)) IN
        IF ~check_interface_exists(r)
        THEN Returns(Append(cs, Call(<<"nmcli", "device">>, d)),
                     msgs \cup {"Error: Interface " \o config.interface \o " does not exist"})
        ELSE Proceeds("apply_disconnect", cs, msgs)
    /\ UNCHANGED <<typed, choice, config, file, vres>>

\* apply_configuration: disconnect_current, whose result nobody reads
apply_disconnect ==
    /\ pc = "apply_disconnect"
    /\ \E r \in PlainResults :
        Proceeds("apply_create",
                 Append(calls, Call(<<"nmcli", "device", "disconnect", config.interface>>, r)),
                 msgs \cup {"Disconnecting from current WiFi on " \o config.interface \o "..."})
    /\ UNCHANGED <<typed, choice, config, file, vres>>

\* the commands of create_connection
DeleteArgv(cfg) == <<"nmcli", "connection", "delete", cfg.ssid>>
AddArgv(cfg) ==
    <<"nmcli", "connection", "add", "type", "wifi", "con-name", cfg.ssid,
      "ifname", cfg.interface, "ssid", cfg.ssid, "ip4", cfg.ip \o "/" \o cfg.subnet,
      "gw4", cfg.gateway, "ipv4.dns", cfg.dns, "ipv4.method", "manual">>
PasswordArgv(cfg) ==
    <<"nmcli", "connection", "modify", cfg.ssid, "wifi-sec.key-mgmt", "wpa-psk",
      "wifi-sec.psk", cfg.password>>

\* create_connection that reports a failed password command as a failure
create_connection_strict(cfg, rdel, radd, rmod) ==
    LET del == Call(DeleteArgv(cfg), rdel)
        add == Call(AddArgv(cfg), radd)
    IN  IF radd.rc # 0 THEN [calls |-> <<del, add>>, ret |-> FALSE]
        ELSE IF cfg.password # ""
        THEN [calls |-> <<del, add, Call(PasswordArgv(cfg), rmod)>>, ret |-> rmod.rc = 0]
        ELSE [calls |-> <<del, add>>, ret |-> TRUE]

\* create_connection(config) given the results of its commands: the commands it
\* runs and what it returns
create_connection(cfg, rdel, radd, rmod) ==
    LET del == Call(DeleteArgv(cfg), rdel)
        add == Call(AddArgv(cfg), radd)
    IN  IF radd.rc # 0 THEN [calls |-> <<del, add>>, ret |-> FALSE]
        ELSE IF cfg.password # ""
        THEN [calls |-> <<del, add, Call(PasswordArgv(cfg), rmod)>>, ret |-> TRUE]
        ELSE [calls |-> <<del, add>>, ret |-> TRUE]

\* apply_configuration: "Create new connection with static IP"
apply_create ==
    /\ pc = "apply_create"
    /\ \E rdel \in PlainResults, radd \in PlainResults, rmod \in PlainResults :
        LET c == create_connection(config, rdel, radd, rmod) IN
        IF ~c.ret
        THEN Returns(calls \o c.calls, msgs \cup {"Failed to create connection"})
        ELSE Proceeds("apply_activate", calls \o c.calls, msgs)
    /\ UNCHANGED <<typed, choice, config, file, vres>>

\* activate_connection that does not look at the exit code
activate_connection_unchecked(r) == TRUE

\* activate_connection on the result of `nmcli connection up <ssid>`
activate_connection(r) == r.rc = 0

\* apply_configuration: "Activate the connection"
apply_activate ==
    /\ pc = "apply_activate"
    /\ \E r \in PlainResults :
        LET cs == Append(calls, Call(<<"nmcli", "connection", "up", config.ssid>>, r)) IN
        IF ~activate_connection(r)
        THEN Returns(cs, msgs \cup {"Failed to activate connection"})
        ELSE Proceeds("apply_verify", cs, msgs)
    /\ UNCHANGED <<typed, choice, config, file, vres>>

\* apply_configuration: "Verify connection" and the final report
apply_verify ==
    /\ pc = "apply_verify"
    /\ \E r1 \in ActiveResults, r2 \in AddrResults, r3 \in RouteResults,
          r4 \in ResolvResults, r5 \in WifiListResults :
        LET v == verify_connection(config, r1, r2, r3, r4, r5) IN
        /\ vres' = v
        /\ Returns(calls \o VerifyCalls(config, r1, r2, r3, r4, r5),
                   msgs \cup (IF ~v.all_good
                              THEN {"Configuration verification failed"}
                              ELSE {"Configuration completed successfully!"}))
    /\ UNCHANGED <<typed, choice, config, file>>

\* choice "8": reset_to_dhcp up to the lookup of the connected WiFi interface
reset_to_dhcp ==
    /\ Reads("8")
    /\ \E r \in StatusResults :
        LET cs == <<Call(<<"nmcli", "device", "status">>, r)>>
            found == StatusWifiInterface(r.out)
        IN  IF r.rc # 0 THEN Returns(cs, {"Failed to get device status"})
            ELSE IF ~Truthy(found) THEN Returns(cs, {"No active WiFi connection found"})
            ELSE /\ wifi_interface' = found
                 /\ GoesOn("reset_show", cs, {"Resetting to DHCP..."})
                 /\ UNCHANGED <<team_id, player_id, active_connection>>
    /\ UNCHANGED <<typed, config, file, vres>>

\* reset_to_dhcp: "Get the connection name for this interface"
reset_show ==
    /\ pc = "reset_show"
    /\ \E r \in ShowResults :
        LET cs == Append(calls, Call(<<"nmcli", "device", "show", wifi_interface[1]>>, r))
            found == ShowActiveConnection(r.out)
        IN  IF r.rc # 0
            THEN Returns(cs, msgs \cup {"Failed to get device info for " \o wifi_interface[1]})
            ELSE IF ~Truthy(found)
            THEN Returns(cs, msgs \cup {"Could not find connection name for interface "
                                        \o wifi_interface[1]})
            ELSE /\ active_connection' = found
                 /\ GoesOn("reset_modify", cs, msgs)
                 /\ UNCHANGED <<team_id, player_id, wifi_interface>>
    /\ UNCHANGED <<typed, choice, config, file, vres>>

\* reset_to_dhcp: "Modify connection to use DHCP"
reset_modify ==
    /\ pc = "reset_modify"
    /\ \E r \in PlainResults :
        LET cs == Append(calls, Call(<<"nmcli", "connection", "modify", active_connection[1],
                                       "ipv4.method", "auto">>, r))
        IN  IF r.rc # 0 THEN Returns(cs, msgs \cup {"Failed to modify connection"})
            ELSE Proceeds("reset_down", cs, msgs)
    /\ UNCHANGED <<typed, choice, config, file, vres>>

\* the down half that goes on to the up half whatever `connection down` exits with
reset_down_unchecked ==
    /\ pc = "reset_down"
    /\ \E r \in PlainResults :
        Proceeds("reset_up",
                 Append(calls, Call(<<"nmcli", "connection", "down", active_connection[1]>>, r)),
                 msgs)
    /\ UNCHANGED <<typed, choice, config, file, vres>>

\* reset_to_dhcp: "Restart connection", the down half
reset_down ==
    /\ pc = "reset_down"
    /\ \E r \in PlainResults :
        LET cs == Append(calls, Call(<<"nmcli", "connection", "down", active_connection[1]>>, r))
        IN  IF r.rc # 0 THEN Returns(cs, msgs \cup {"Failed to bring down connection"})
            ELSE Proceeds("reset_up", cs, msgs)
    /\ UNCHANGED <<typed, choice, config, file, vres>>

\* reset_to_dhcp: "Restart connection", the up half and the final report
reset_up ==
    /\ pc = "reset_up"
    /\ \E r \in PlainResults :
        LET cs == Append(calls, Call(<<"nmcli", "connection", "up", active_connection[1]>>, r))
        IN  IF r.rc # 0 THEN Returns(cs, msgs \cup {"Failed to bring up connection"})
            ELSE Returns(cs, msgs \cup {"Connection reset to DHCP successfully"})
    /\ UNCHANGED <<typed, choice, config, file, vres>>

\* choice "9"
configure_purpose ==
    /\ Reads("9")
    /\ IF ~file.exists
       THEN Raises("FileNotFoundError", <<OpenFailed("r")>>, {}) /\ UNCHANGED <<file, typed>>
       ELSE IF RoleLineRaises(file.bytes)
       THEN Raises("IndexError", <<Open("r")>>, {}) /\ UNCHANGED <<file, typed>>
       ELSE \E inp \in PurposeInputs :
            LET new_purpose == Lower(Strip(inp)) IN
            /\ typed' = <<[prompt |-> "Enter new purpose (striker or goal_keeper) or Enter to keep: ",
                           line |-> inp]>>
            /\ IF new_purpose \notin {"striker", "goal_keeper"}
               THEN /\ Returns(<<Open("r")>>, {"Invalid purpose. Please enter either striker or goal_keeper."})
                    /\ UNCHANGED file
               ELSE IF new_purpose # ""
               THEN /\ file' = FileOf(PatchRole(file.bytes, new_purpose))
                    /\ Returns(<<Open("r"), Open("r"), Open("w")>>,
                               IF RoleLineIndex(file.bytes) # 0
                               THEN {"New purpose set to: " \o new_purpose} ELSE {})
               ELSE /\ Returns(<<Open("r")>>, {"No new purpose provided"})
                    /\ UNCHANGED file
    /\ UNCHANGED <<config, vres>>

Next ==
    \/ main_menu
    \/ apply_configuration
    \/ apply_privilege
    \/ apply_interface
    \/ apply_disconnect
    \/ apply_create
    \/ apply_activate
    \/ apply_verify
    \/ reset_to_dhcp
    \/ reset_show
    \/ reset_modify
    \/ reset_down
    \/ reset_up
    \/ configure_purpose
    \/ display_config
    \/ edit_config
    \/ scan_networks
    \/ scan_interfaces
    \/ menu_verify_connection
    \/ test_connection
    \/ exit_menu
    \/ invalid_option

Spec == Init /\ [][Next]_vars

(***************************************************************************)
(* The apply workflow alone, run again and again, over more config files.  *)
(***************************************************************************)

InitApply ==
    /\ pc = "menu"
    /\ choice = ""
    /\ config \in {[DefaultConfig EXCEPT !.ip = ip] : ip \in ApplyIps}
    /\ file \in GeneratedFiles
    /\ calls = <<>>
    /\ msgs = {}
    /\ typed = <<>>
    /\ vres = NotVerified
    /\ team_id = ""
    /\ player_id = ""
    /\ wifi_interface = None
    /\ active_connection = None
    /\ exc = ""

NextApply ==
    \/ main_menu
    \/ apply_configuration
    \/ apply_privilege
    \/ apply_interface
    \/ apply_disconnect
    \/ apply_create
    \/ apply_activate
    \/ apply_verify

SpecApply == InitApply /\ [][NextApply]_vars

(***************************************************************************)
(* The apply workflow over the WifiConfig values create_connection can be  *)
(* handed: the password field defaults to the empty string.                *)
(***************************************************************************)

CreateConfigs ==
    {[DefaultConfig EXCEPT !.ssid = s, !.password = p] :
        s \in {"robocup-x", "my lab"}, p \in {"", "9181918191", " "}}

InitCreate ==
    /\ pc = "menu"
    /\ choice = ""
    /\ config \in CreateConfigs
    /\ file \in InitialFiles
    /\ calls = <<>>
    /\ msgs = {}
    /\ typed = <<>>
    /\ vres = NotVerified
    /\ team_id = ""
    /\ player_id = ""
    /\ wifi_interface = None
    /\ active_connection = None
    /\ exc = ""

SpecCreate == InitCreate /\ [][NextApply]_vars

(***************************************************************************)
(* Vocabulary of the properties.                                           *)
(***************************************************************************)

\* the command c starts with these words
IsCmd(c, words) == Len(c.argv) >= Len(words) /\ SubSeq(c.argv, 1, Len(words)) = words

IsIdCall(c) == IsCmd(c, <<"id", "-u">>)
IsShowCall(c) == IsCmd(c, <<"nmcli", "device", "show">>)
IsDisconnectCall(c) == IsCmd(c, <<"nmcli", "device", "disconnect">>)
IsDeleteCall(c) == IsCmd(c, <<"nmcli", "connection", "delete">>)
IsAddCall(c) == IsCmd(c, <<"nmcli", "connection", "add">>)
IsModifyCall(c) == IsCmd(c, <<"nmcli", "connection", "modify">>)
IsUpCall(c) == IsCmd(c, <<"nmcli", "connection", "up">>)
IsDownCall(c) == IsCmd(c, <<"nmcli", "connection", "down">>)
IsActiveCall(c) == IsCmd(c, <<"nmcli", "connection", "show", "--active">>)
IsFileWrite(c) == c.argv = <<"open", ConfigPath, "w">>
IsFileOpen(c) == IsCmd(c, <<"open">>)

\* a command that changes the network configuration
IsMutating(c) ==
    \/ IsDisconnectCall(c) \/ IsDeleteCall(c) \/ IsAddCall(c)
    \/ IsModifyCall(c) \/ IsUpCall(c) \/ IsDownCall(c)

\* the step of the apply workflow a call belongs to
StepOf(c) ==
    IF IsFileOpen(c) THEN "patch"
    ELSE IF IsIdCall(c) THEN "privilege"
    ELSE IF IsShowCall(c) THEN "interface"
    ELSE IF c.argv = <<"nmcli", "device">> THEN "diagnostic"
    ELSE IF IsDisconnectCall(c) THEN "disconnect"
    ELSE IF IsDeleteCall(c) \/ IsAddCall(c) \/ IsModifyCall(c) THEN "create"
    ELSE IF IsUpCall(c) THEN "activate"
    ELSE "verify"

\* the rank of a step in the workflow
StepRank(step) ==
    CASE step = "patch" -> 1 [] step = "privilege" -> 2 [] step = "interface" -> 3
      [] step = "diagnostic" -> 4 [] step = "disconnect" -> 5 [] step = "create" -> 6
      [] step = "activate" -> 7 [] step = "verify" -> 8

\* the call is a gate of the workflow that did not let the run through
Aborts(c) ==
    \/ IsIdCall(c) /\ Strip(c.out) # "0"
    \/ IsShowCall(c) /\ c.rc # 0
    \/ IsAddCall(c) /\ c.rc # 0
    \/ IsUpCall(c) /\ c.rc # 0

\* the run under way is one of apply_configuration
InApply == choice = "5"

\* some call of cs before position i satisfies P
Earlier(cs, i, P(_)) == \E j \in 1..(i - 1) : P(cs[j])

PrivilegePassed(c) == IsIdCall(c) /\ Strip(c.out) = "0"
InterfacePassed(c) == IsShowCall(c) /\ c.rc = 0
AddPassed(c) == IsAddCall(c) /\ c.rc = 0
UpPassed(c) == IsUpCall(c) /\ c.rc = 0

\* the run was refused by the privilege check
NonRoot(cs) == \E i \in 1..Len(cs) : IsIdCall(cs[i]) /\ Strip(cs[i].out) # "0"

\* the positions of s at which a line ends: a "\n", or a "\r" not followed by "\n"
LineEnds(s) ==
    {k \in 1..Len(s) :
        \/ CharAt(s, k) = "\n"
        \/ CharAt(s, k) = "\r" /\ (k = Len(s) \/ CharAt(s, k + 1) # "\n")}

\* the lines of a file as they are on disk, terminators included
RECURSIVE RawLinesFrom(_, _)
RawLinesFrom(s, start) ==
    LET ends == {k \in LineEnds(s) : k >= start} IN
    IF start > Len(s) THEN <<>>
    ELSE IF ends = {} THEN <<SubSeq(s, start, Len(s))>>
    ELSE <<SubSeq(s, start, Min(ends))>> \o RawLinesFrom(s, Min(ends) + 1)

RawLines(s) == RawLinesFrom(s, 1)

\* a patch of the keys took old to new keeping every other line as it was
Preserved(old, new, keys) ==
    LET o == RawLines(old)
        n == RawLines(new)
    IN  /\ Len(n) = Len(o)
        /\ \A i \in 1..Len(o) :
              (\A k \in keys : ~Contains(o[i], k)) => n[i] = o[i]

\* the lines the patch of apply_configuration is to leave behind
TeamLine(c) == "      team_id: " \o c \o " # must be consistant with GameControl\n"
PlayerLine(d) == "      player_id: " \o d \o " # 1 | 2 | 3 | 4 | 5\n"

\* the steps of apply_configuration after its patch
ApplyLaterSteps ==
    {"apply_privilege", "apply_interface", "apply_disconnect", "apply_create",
     "apply_activate", "apply_verify"}

\* the five calls of the verify_connection that ran last
VerifyTail == SubSeq(calls, Len(calls) - 4, Len(calls))

\* the device-status output has no row of a WiFi device in state connected
NoConnectedWifiRow(out) ==
    LET lines == SplitLines(out) IN
    \A i \in 1..Len(lines) :
        LET w == SplitWS(lines[i]) IN
        ~(Len(w) >= 3 /\ Lower(w[2]) = "wifi" /\ Lower(w[3]) = "connected")

\* some address line of the dump has the token ip/prefix, whole
HasAddressToken(cfg, out) ==
    LET lines == SplitLines(out) IN
    \E i \in 1..Len(lines) :
        /\ Contains(lines[i], "inet ")
        /\ \E k \in 1..Len(SplitWS(lines[i])) :
              SplitWS(lines[i])[k] = cfg.ip \o "/" \o cfg.subnet

\* the config field an edit_config prompt stands for is as it was
FieldKept(prompt) ==
    CASE prompt = "New SSID (or Enter to keep): " -> config'.ssid = config.ssid
      [] prompt = "Select interface (or Enter to keep current): " ->
            config'.interface = config.interface
      [] prompt = "Enter interface name: " -> config'.interface = config.interface
      [] prompt = "New IP address (or Enter to keep): " -> config'.ip = config.ip
      [] prompt = "New subnet mask / (or Enter to keep): " -> config'.subnet = config.subnet
      [] prompt = "New gateway (or Enter to keep): " -> config'.gateway = config.gateway
      [] prompt = "New DNS server (or Enter to keep): " -> config'.dns = config.dns
      [] prompt = "New password (or Enter to keep): " -> config'.password = config.password

(***************************************************************************)
(* Properties.                                                             *)
(***************************************************************************)

\* C1: in a run of apply_configuration the calls follow the order of the workflow,
\* no step is run twice, the profile is added only after the privilege and the
\* interface check passed, brought up only after the add exited 0, verified only
\* after the up exited 0, success is reported only if verify_connection returned
\* true, and a gate that aborts the run is followed by no command of a later step
\* (by nothing but the interface diagnostic).
C1_GatedInOrder ==
    InApply =>
        /\ \A i \in 1..Len(calls), j \in 1..Len(calls) :
              i < j => StepRank(StepOf(calls[i])) <= StepRank(StepOf(calls[j]))
        /\ \A i \in 1..Len(calls), j \in 1..Len(calls) :
              (i # j /\ IsMutating(calls[i])) => calls[i].argv # calls[j].argv
        /\ \A i \in 1..Len(calls) :
              /\ IsAddCall(calls[i]) =>
                    Earlier(calls, i, PrivilegePassed) /\ Earlier(calls, i, InterfacePassed)
              /\ IsMutating(calls[i]) => Earlier(calls, i, PrivilegePassed)
              /\ IsUpCall(calls[i]) => Earlier(calls, i, AddPassed)
              /\ IsActiveCall(calls[i]) => Earlier(calls, i, UpPassed)
              /\ Aborts(calls[i]) =>
                    /\ pc = "done"
                    /\ \A j \in (i + 1)..Len(calls) : StepOf(calls[j]) = "diagnostic"
        /\ vres.ran => \E i \in 1..Len(calls) : UpPassed(calls[i])
        /\ "Configuration completed successfully!" \in msgs =>
              vres.ran /\ vres.all_good /\ pc = "done"
        /\ (vres.ran /\ ~vres.all_good) =>
              pc = "done" /\ "Configuration verification failed" \in msgs

\* a run of apply_configuration went through every step and reported success
C1_Witness ==
    /\ InApply /\ pc = "done"
    /\ "Configuration completed successfully!" \in msgs
    /\ \E i \in 1..Len(calls) : IsAddCall(calls[i])

\* C2: apply_configuration leaves the WifiConfig as it is, and a run whose `id -u`
\* does not answer 0 ends at the privilege check having issued no mutating network
\* command and written the config file exactly once, before that check.
C2_PrivilegeGate ==
    [][ /\ (choice' = "5" => config' = config)
        /\ (pc = "apply_privilege" /\ NonRoot(calls')) =>
              /\ pc' = "done"
              /\ file' = file
              /\ \A i \in 1..Len(calls') : ~IsMutating(calls'[i])
              /\ Cardinality({i \in 1..Len(calls') : IsFileWrite(calls'[i])}) = 1
              /\ \A i \in 1..Len(calls') :
                    IsFileWrite(calls'[i]) => \E j \in (i + 1)..Len(calls') : IsIdCall(calls'[j])
              /\ IsIdCall(calls'[Len(calls')])
      ]_vars

\* a run of apply_configuration was refused for want of privilege, the file patched
C2_Witness ==
    /\ InApply /\ pc = "done" /\ NonRoot(calls)
    /\ Contains(file.bytes, TeamLine("57"))

\* C3: reset_to_dhcp on a device-status output with no connected WiFi row reports
\* "No active WiFi connection found" and issues no mutating command.
C3_NoConnectedWifiNoMutation ==
    (choice = "8" /\ Len(calls) >= 1 /\ calls[1].rc = 0 /\ NoConnectedWifiRow(calls[1].out)) =>
        /\ \A i \in 1..Len(calls) : ~IsMutating(calls[i])
        /\ pc = "done" => "No active WiFi connection found" \in msgs

\* C4: a precondition failure (not root, interface missing, config file missing)
\* ends the operation only: the process is at the prompt again, never gone.
C4_PreconditionFailureKeepsProcess ==
    /\ exc # "FileNotFoundError"
    /\ (choice \in {"5", "9"} /\ ~file.exists) => pc # "crashed"
    /\ (InApply /\ \E i \in 1..Len(calls) : Aborts(calls[i])) => pc = "done"

\* C5: a patch of the config file keeps the number and order of its lines and
\* writes every line without a patched key back byte for byte.
C5_PatchKeepsOtherLines ==
    [][ /\ (pc = "menu" /\ pc' = "apply_privilege") =>
              Preserved(file.bytes, file'.bytes, {"team_id", "player_id"})
        /\ (pc = "menu" /\ choice' = "9" /\ \E i \in 1..Len(calls') : IsFileWrite(calls'[i])) =>
              Preserved(file.bytes, file'.bytes, {"player_role"})
      ]_vars

\* C6: the team_id / player_id patch run again with the same IP on the file it just
\* wrote writes the same file.
C6_PatchIdempotent ==
    pc = "apply_privilege" =>
        PatchIds(file.bytes, IpTail(config.ip)[1], IpTail(config.ip)[2]) = file.bytes

\* C7: verify_connection runs its five commands whatever the earlier checks found,
\* returns true exactly if all five checks passed, and a non-zero exit of the
\* address, resolver-file or WiFi-list command fails that check.
C7_VerifyAggregates ==
    vres.ran =>
        /\ Len(calls) >= 5
        /\ VerifyTail = VerifyCalls(config, VerifyTail[1], VerifyTail[2], VerifyTail[3],
                                    VerifyTail[4], VerifyTail[5])
        /\ Len(vres.marks) = 5
        /\ vres.all_good <=> \A i \in 1..5 : vres.marks[i]
        /\ VerifyTail[2].rc # 0 => ~vres.marks[2]
        /\ VerifyTail[4].rc # 0 => ~vres.marks[4]
        /\ VerifyTail[5].rc # 0 => ~vres.marks[5]

\* verify_connection failed its first check, went on and passed the last
C7_Witness ==
    /\ vres.ran /\ ~vres.all_good
    /\ ~vres.marks[1] /\ vres.marks[5]

\* C8: the IP / prefix check passes exactly if the address command exited 0 and
\* some address line holds the token ip/prefix, whole.
C8_ExactAddressToken ==
    vres.ran =>
        (vres.marks[2] <=>
            VerifyTail[2].rc = 0 /\ HasAddressToken(config, VerifyTail[2].out))

\* C9: for an IP a.b.c.d, apply_configuration derives team_id c and player_id d,
\* its patch leaves the team_id lines with c and the other player_id lines with d,
\* and no later step of the run touches the file.
C9_DerivesAndPatches ==
    [][ /\ (pc = "menu" /\ choice' = "5" /\ file.exists /\ Len(Split(config.ip, ".")) = 4) =>
              LET c == Split(config.ip, ".")[3]
                  d == Split(config.ip, ".")[4]
                  old == RawLines(file.bytes)
                  new == RawLines(file'.bytes)
              IN  /\ pc' = "apply_privilege"
                  /\ team_id' = c
                  /\ player_id' = d
                  /\ Len(new) = Len(old)
                  /\ \A i \in 1..Len(old) :
                        /\ Contains(old[i], "team_id") => new[i] = TeamLine(c)
                        /\ (~Contains(old[i], "team_id") /\ Contains(old[i], "player_id")) =>
                              new[i] = PlayerLine(d)
        /\ pc \in ApplyLaterSteps => file' = file
      ]_vars

\* a run of apply_configuration patched both ids and failed at the activation
C9_Witness ==
    /\ InApply /\ pc = "done"
    /\ "Failed to activate connection" \in msgs
    /\ Contains(file.bytes, TeamLine("57")) /\ Contains(file.bytes, PlayerLine("45"))

\* C10: a choice main_menu does not dispatch runs no command, opens no file, leaves
\* the WifiConfig alone and leads back to the prompt; the WifiConfig changes only
\* under choice 2, and there a prompt answered with nothing keeps its field.
C10_MenuFrame ==
    [][ /\ (pc = "menu" /\ choice' \notin Dispatched) =>
              /\ pc' = "done"
              /\ calls' = <<>>
              /\ file' = file
              /\ config' = config
              /\ msgs' = {"Invalid option. Please try again."}
        /\ pc = "done" => pc' = "menu"
        /\ config' # config => pc = "menu" /\ choice' = "2"
        /\ (pc = "menu" /\ choice' = "2") =>
              \A i \in 1..Len(typed') :
                  Strip(typed'[i].line) = "" => FieldKept(typed'[i].prompt)
      ]_vars

\* the edited WifiConfig survived the unimplemented option 10
C10_Witness ==
    /\ pc = "done" /\ choice = "10"
    /\ config.ssid = "lab" /\ config.gateway = "10.0.3.1" /\ config.ip = DefaultConfig.ip

(***************************************************************************)
(* reset_to_dhcp.                                                          *)
(***************************************************************************)

\* the run under way is one of reset_to_dhcp
InReset == choice = "8"

\* the commands reset_to_dhcp issues, in its order, given what its lookups resolved to
ResetArgv(i, iface, conn) ==
    CASE i = 1 -> <<"nmcli", "device", "status">>
      [] i = 2 -> <<"nmcli", "device", "show", iface>>
      [] i = 3 -> <<"nmcli", "connection", "modify", conn, "ipv4.method", "auto">>
      [] i = 4 -> <<"nmcli", "connection", "down", conn>>
      [] i = 5 -> <<"nmcli", "connection", "up", conn>>

\* the first word of the first device-status row reading wifi and connected, "" if none
ResolvedInterface(cs) ==
    LET o == StatusWifiInterface(cs[1].out) IN IF Truthy(o) THEN o[1] ELSE ""

\* the value of the first GENERAL.CONNECTION row of the device-show output, "" if none
ResolvedConnection(cs) ==
    LET o == ShowActiveConnection(cs[2].out) IN IF Truthy(o) THEN o[1] ELSE ""

\* step i of the reset run did what the next step needs: the command exited 0
\* and, for the two lookups, a non-empty name was found in its output
ResetStepPassed(cs, i, iface, conn) ==
    /\ cs[i].rc = 0
    /\ i = 1 => iface # ""
    /\ i = 2 => conn # ""

ResetSuccess == "Connection reset to DHCP successfully"

\* C11: in a run of reset_to_dhcp the commands issued are, in this order, device
\* status, device show <interface>, connection modify <name> ipv4.method auto,
\* connection down <name>, connection up <name>; a command is issued only if
\* every earlier command exited 0 and every earlier lookup found a name, so the
\* first failure is the last command of the run and nothing undoes an earlier
\* one; the run ends either at a failure or after all five; and success is
\* reported exactly when modify, down and up all exited 0.
C11_ResetFailsFast ==
    InReset =>
        LET n == Len(calls)
            iface == IF n >= 1 THEN ResolvedInterface(calls) ELSE ""
            conn == IF n >= 2 THEN ResolvedConnection(calls) ELSE ""
            Passed(j) == ResetStepPassed(calls, j, iface, conn)
        IN  /\ n <= 5
            /\ \A i \in 1..n :
                  /\ calls[i].argv = ResetArgv(i, iface, conn)
                  /\ \A j \in 1..(i - 1) : Passed(j)
            /\ pc = "done" => n >= 1 /\ (n < 5 => ~Passed(n))
            /\ pc = "reset_show" => n = 1 /\ Passed(1)
            /\ pc = "reset_modify" => n = 2 /\ Passed(2)
            /\ pc = "reset_down" => n = 3 /\ Passed(3)
            /\ pc = "reset_up" => n = 4 /\ Passed(4)
            /\ ResetSuccess \in msgs <=>
                  /\ pc = "done" /\ n = 5
                  /\ calls[3].rc = 0 /\ calls[4].rc = 0 /\ calls[5].rc = 0

\* a reset run that ended at a failed `connection down`: the modify to DHCP
\* before it exited 0 and stays, no `connection up` follows, no success is reported
C11_Witness ==
    /\ InReset /\ pc = "done" /\ Len(calls) = 4
    /\ IsModifyCall(calls[3]) /\ calls[3].rc = 0
    /\ IsDownCall(calls[4]) /\ calls[4].rc # 0
    /\ ResetSuccess \notin msgs

(***************************************************************************)
(* create_connection.                                                      *)
(***************************************************************************)

CreateFailed == "Failed to create connection"

\* the caller took create_connection's return value for success: it went on
\* to activate_connection
CreateTakenForSuccess(i) ==
    pc = "apply_activate" \/ \E j \in (i + 1)..Len(calls) : IsUpCall(calls[j])

\* C12: create_connection issues `connection delete <ssid>` and then, whatever
\* the delete exited with, `connection add`; it returns success exactly when
\* the add exited 0; `connection modify <ssid> wifi-sec...` follows the add
\* exactly when the add exited 0 and the password is not the empty string; and
\* the exit code of that modify has no part in the returned value.
C12_CreateConnection ==
    /\ \A rdel \in PlainResults, radd \in PlainResults, rmod \in PlainResults :
          LET c == create_connection(config, rdel, radd, rmod) IN
          /\ c.ret = (radd.rc = 0)
          /\ c.calls[1] = Call(DeleteArgv(config), rdel)
          /\ c.calls[2] = Call(AddArgv(config), radd)
          /\ Len(c.calls) = (IF radd.rc = 0 /\ config.password # "" THEN 3 ELSE 2)
          /\ Len(c.calls) = 3 => c.calls[3] = Call(PasswordArgv(config), rmod)
    /\ InApply =>
          /\ \A i \in 1..Len(calls) :
                /\ IsDeleteCall(calls[i]) =>
                      /\ calls[i].argv = DeleteArgv(config)
                      /\ i < Len(calls) /\ calls[i + 1].argv = AddArgv(config)
                /\ IsAddCall(calls[i]) =>
                      /\ i > 1 /\ IsDeleteCall(calls[i - 1])
                      /\ CreateFailed \in msgs <=> calls[i].rc # 0
                      /\ calls[i].rc # 0 => pc = "done" /\ i = Len(calls)
                      /\ calls[i].rc = 0 => CreateTakenForSuccess(i)
                      /\ (i < Len(calls) /\ IsModifyCall(calls[i + 1]))
                            <=> (calls[i].rc = 0 /\ config.password # "")
                /\ IsModifyCall(calls[i]) =>
                      /\ calls[i].argv = PasswordArgv(config)
                      /\ i > 1 /\ IsAddCall(calls[i - 1])
          /\ CreateFailed \in msgs => \E i \in 1..Len(calls) : IsAddCall(calls[i])

\* an apply run with no password set: the delete failed, the add after it
\* exited 0, no password command was issued and the connection was activated
C12_Witness ==
    /\ InApply /\ config.password = ""
    /\ \E i \in 2..Len(calls) :
          /\ IsDeleteCall(calls[i - 1]) /\ calls[i - 1].rc # 0
          /\ IsAddCall(calls[i]) /\ calls[i].rc = 0
          /\ i < Len(calls) /\ IsUpCall(calls[i + 1])
    /\ \A i \in 1..Len(calls) : ~IsModifyCall(calls[i])

=============================================================================
